---- MODULE Spec2Model ----
(***************************************************************************)
(* Conversation-history service of LLM_EduChat: the sessions and messages  *)
(* tables (models.py, SQLite through database.py), the session and message *)
(* handlers (crud/session_crud.py, crud/message_crud.py) and the           *)
(* completion client (use_api.py).                                         *)
(*                                                                         *)
(* Every handler but the chat turn touches the store in one transaction    *)
(* and is one action.  The chat turn awaits the store, then the completion *)
(* API, then the store again; each await is a step of its own, so turns    *)
(* interleave with every other request.                                    *)
(***************************************************************************)
EXTENDS Integers, Sequences, FiniteSets, TLC

\* ---------------------------------------------------------------- bounds
MaxSessions == 2    \* rows the sessions table may grow to
MaxTurns == 2       \* chat turns that may reach the completion call
MaxReq == 2         \* chat requests in flight at the same time
MaxSends == 3       \* messages the desktop client sends

None == "None"                          \* Python's None
Names == {"Test"}                       \* create_session's name argument
Texts == {"hello"}                      \* ChatSchema.user_message
Replies == {"world"}                    \* content the completion API returns
UpstreamStatuses == {503}               \* non-2xx statuses of the completion API
SessionIds == 1..(MaxSessions + 1)      \* ids a request may name (one never stored)
MessageIds == 1..(2 * MaxTurns + 1)     \* ids a request may name (one never stored)
Reqs == 1..MaxReq

VARIABLES
    sessions,   \* the sessions table, rows in rowid order
    messages,   \* the messages table, rows in rowid order
    req,        \* per chat request: where the handler is and its locals
    reply,      \* the response sent by the last step (NoReply when it sent none)
    h_created,  \* history: ids create_session has returned
    h_deleted,  \* history: ids on which delete_session has succeeded
    h_fresh,    \* history: sessions created and not yet committed to by a turn
    api_request, \* the request the completion client last built when called on its own
    client      \* the desktop client: its chat list, its workers and their signals

vars == <<sessions, messages, req, reply, h_created, h_deleted, h_fresh, api_request,
          client>>

\* ------------------------------------------------------------ the store
\* SQLite INTEGER PRIMARY KEY: a new row gets the largest rowid plus one.
NextRowid(table) ==
    IF table = <<>> THEN 1 ELSE table[Len(table)].id + 1

\* models.py Session: id, active, name.
SessionRow(id, name) ==
    [id |-> id, active |-> TRUE, name |-> name]

\* models.py Message: is_deleted defaults to False on insert and timestamp to
\* the time of the insert, a clock read here as the insert's ordinal.
MessageRow(id, obj) ==
    [id |-> id, session_id |-> obj.session_id, character_name |-> obj.character_name,
     message |-> obj.message, timestamp |-> id, is_deleted |-> FALSE]

\* select(Session).filter(Session.id == session_id) ... .first()
SessionById(sid) ==
    SelectSeq(sessions, LAMBDA s : s.id = sid)

\* select(Message).filter(Message.id == message_id) ... .first()
MessageById(mid) ==
    SelectSeq(messages, LAMBDA m : m.id = mid)

\* A flush that commits after the first insert and loses the rest.
FlushFirstOnly(table, pending) ==
    IF pending = <<>> THEN table
    ELSE Append(table, MessageRow(NextRowid(table), Head(pending)))

\* The flush of db.commit(): pending objects are inserted in the order they
\* were added, each taking the next rowid; the transaction is atomic.
RECURSIVE Flush(_, _)
Flush(table, pending) ==
    IF pending = <<>> THEN table
    ELSE Flush(Append(table, MessageRow(NextRowid(table), Head(pending))), Tail(pending))

\* The id the flush gave the pending object of that character_name.
FlushedId(table, pending, name) ==
    NextRowid(table) + (CHOOSE k \in 1..Len(pending) : pending[k].character_name = name) - 1

\* The same query, newest row first.
ScanMessagesDesc(sid) ==
    LET rows == SelectSeq(messages, LAMBDA m : m.session_id = sid /\ ~m.is_deleted) IN
    [i \in 1..Len(rows) |-> rows[Len(rows) + 1 - i]]

\* The same query without the is_deleted filter.
ScanMessagesAll(sid) ==
    SelectSeq(messages, LAMBDA m : m.session_id = sid)

\* select(Message).where(session_id == sid, is_deleted == False): no ORDER BY,
\* so SQLite walks the table's b-tree, which is in rowid order.
ScanMessages(sid) ==
    SelectSeq(messages, LAMBDA m : m.session_id = sid /\ ~m.is_deleted)

\* The same query without the active filter.
ScanSessionsAll ==
    sessions

\* select(Session).where(Session.active == True)
ScanSessions ==
    SelectSeq(sessions, LAMBDA s : s.active)

\* A JSONResponse, and the line the handler logs on the way.
Reply(op, arg, status, detail, body) ==
    [op |-> op, arg |-> arg, status |-> status, detail |-> detail, body |-> body,
     log |-> "none",
     h_prior |-> "none"]    \* history: what delete_session found the session to be

NoReply == Reply("none", 0, 0, "none", <<>>)

Idle ==
    [pc |-> "idle", session_id |-> 0, user_message |-> None, chat_history |-> <<>>,
     ai_message |-> None, pending |-> <<>>, user_id |-> 0, ai_id |-> 0,
     h_first |-> FALSE,     \* history: the session was fresh when the turn began
     h_calls |-> 0,         \* history: completion calls this turn has issued
     h_inactive |-> FALSE]  \* history: the session was stored and inactive at the read

NoRequest == [sent |-> FALSE]

\* chat_app.py ChatWindow after __init__: an empty chat list, no echoed item
\* remembered, no worker started, no signal waiting for the main thread.
ClientInit ==
    [items |-> <<>>,        \* chat_history: kind, UserRole data (0 when unset)
     last |-> 0,            \* last_user_message_item: a position in items, 0 for None
     worker |-> 0,          \* self.worker: the send it was started for, 0 before any
     running |-> {},        \* sends whose Worker is inside run()
     queue |-> <<>>,        \* signals emitted and not yet delivered to their slot
     crashed |-> FALSE,     \* the process was aborted
     h_sent |-> 0,          \* history: sends so far
     h_emitted |-> <<>>,    \* history: per send, how many signals its Worker emitted
     h_handled |-> {},      \* history: sends whose 200 response reached handle_response
     h_failed |-> FALSE]    \* history: a slot raised an exception

Init ==
    /\ sessions = <<>>
    /\ messages = <<>>
    /\ req = [r \in Reqs |-> Idle]
    /\ reply = NoReply
    /\ h_created = {}
    /\ h_deleted = {}
    /\ h_fresh = {}
    /\ api_request = NoRequest
    /\ client = ClientInit

\* ------------------------------------------------------------ scheduling
\* The handlers are coroutines on one asyncio event loop: a handler takes a
\* step only while every other started handler is parked at an await. The
\* completion call is awaited (aiohttp), like execute, commit and refresh.
AwaitPoints == {"idle", "api", "commit", "refresh"}

\* The blocking client (requests.post) would keep the loop for the whole call.
SuspendedBlockingCall(r) ==
    req[r].pc \in AwaitPoints \ {"api"}

Suspended(r) ==
    req[r].pc \in AwaitPoints

LoopFreeFor(r) ==
    \A q \in Reqs \ {r} : Suspended(q)

LoopFree ==
    \A q \in Reqs : Suspended(q)

\* ------------------------------------------------- crud/session_crud.py
create_session(name) ==
    /\ LoopFree
    /\ Len(sessions) < MaxSessions
    /\ LET id == NextRowid(sessions) IN
        /\ sessions' = Append(sessions, SessionRow(id, name))
        /\ reply' = Reply("create_session", 0, 201, "ok",
                          <<[session_id |-> id, session_name |-> name]>>)
        /\ h_created' = h_created \cup {id}
        /\ h_fresh' = h_fresh \cup {id}
    /\ UNCHANGED <<messages, req, h_deleted, api_request, client>>

list_sessions_reply ==
    Reply("list_sessions", 0, 200, "ok",
          [i \in 1..Len(ScanSessions) |->
              [session_id |-> ScanSessions[i].id, session_name |-> ScanSessions[i].name]])

list_sessions ==
    /\ LoopFree
    /\ reply' = list_sessions_reply
    /\ UNCHANGED <<sessions, messages, req, h_created, h_deleted, h_fresh, api_request, client>>

\* A delete_session that also marks the session's messages deleted.
delete_session_cascade(sid) ==
    /\ LoopFree
    /\ IF SessionById(sid) = <<>>
       THEN /\ reply' = Reply("delete_session", sid, 404, "not found", <<>>)
            /\ UNCHANGED <<sessions, messages, h_deleted>>
       ELSE /\ sessions' = [i \in 1..Len(sessions) |->
                              IF sessions[i].id = sid
                              THEN [sessions[i] EXCEPT !.active = FALSE]
                              ELSE sessions[i]]
            /\ messages' = [i \in 1..Len(messages) |->
                              IF messages[i].session_id = sid
                              THEN [messages[i] EXCEPT !.is_deleted = TRUE]
                              ELSE messages[i]]
            /\ reply' = [Reply("delete_session", sid, 200, "ok", <<>>) EXCEPT
                            !.h_prior = IF SessionById(sid)[1].active THEN "active"
                                        ELSE "inactive"]
            /\ h_deleted' = h_deleted \cup {sid}
    /\ UNCHANGED <<req, h_created, h_fresh, api_request, client>>

\* A delete that flips the flag, bringing a deleted session back.
ToggleActive(row) ==
    [row EXCEPT !.active = ~row.active]

\* session.active = False
Deactivate(row) ==
    [row EXCEPT !.active = FALSE]

\* A delete_session that looks the session up among the active ones only.
delete_session_recheck(sid) ==
    /\ LoopFree
    /\ IF SelectSeq(sessions, LAMBDA s : s.id = sid /\ s.active) = <<>>
       THEN /\ reply' = Reply("delete_session", sid, 404, "not found", <<>>)
            /\ UNCHANGED <<sessions, h_deleted>>
       ELSE /\ sessions' = [i \in 1..Len(sessions) |->
                              IF sessions[i].id = sid THEN Deactivate(sessions[i])
                              ELSE sessions[i]]
            /\ reply' = [Reply("delete_session", sid, 200, "ok", <<>>) EXCEPT
                            !.h_prior = "active"]
            /\ h_deleted' = h_deleted \cup {sid}
    /\ UNCHANGED <<messages, req, h_created, h_fresh, api_request, client>>

delete_session(sid) ==
    /\ LoopFree
    /\ IF SessionById(sid) = <<>>
       THEN /\ reply' = Reply("delete_session", sid, 404, "not found", <<>>)
            /\ UNCHANGED <<sessions, h_deleted>>
       ELSE /\ sessions' = [i \in 1..Len(sessions) |->
                              IF sessions[i].id = sid THEN Deactivate(sessions[i])
                              ELSE sessions[i]]
            /\ reply' = [Reply("delete_session", sid, 200, "ok", <<>>) EXCEPT
                            !.h_prior = IF SessionById(sid)[1].active THEN "active"
                                        ELSE "inactive"]
            /\ h_deleted' = h_deleted \cup {sid}
    /\ UNCHANGED <<messages, req, h_created, h_fresh, api_request, client>>

\* ------------------------------------------------- crud/message_crud.py
get_messages_reply(sid) ==
    IF SessionById(sid) = <<>>
    THEN Reply("get_messages", sid, 404, "not found", <<>>)
    ELSE Reply("get_messages", sid, 200, "ok",
               [i \in 1..Len(ScanMessages(sid)) |->
                   [id |-> ScanMessages(sid)[i].id,
                    character_name |-> ScanMessages(sid)[i].character_name,
                    message |-> ScanMessages(sid)[i].message]])

get_messages(sid) ==
    /\ LoopFree
    /\ reply' = get_messages_reply(sid)
    /\ UNCHANGED <<sessions, messages, req, h_created, h_deleted, h_fresh, api_request, client>>

\* A delete that flips the flag.
ToggleDeleted(row) ==
    [row EXCEPT !.is_deleted = ~row.is_deleted]

\* A delete that also blanks the text of the message it flags.
MarkDeletedRedact(row) ==
    IF row.is_deleted THEN row ELSE [row EXCEPT !.is_deleted = TRUE, !.message = None]

\* message.is_deleted = True, unless the flag is already set.
MarkDeleted(row) ==
    IF row.is_deleted THEN row ELSE [row EXCEPT !.is_deleted = TRUE]

delete_message_reply(mid) ==
    IF MessageById(mid) = <<>>
    THEN Reply("delete_message", mid, 404, "not found", <<>>)
    ELSE [Reply("delete_message", mid, 200, "ok", <<>>) EXCEPT
             !.log = IF MessageById(mid)[1].is_deleted THEN "repeated delete" ELSE "none"]

\* A delete that removes the row (db.delete) where the code sets the flag.
delete_message_hard(mid) ==
    /\ LoopFree
    /\ reply' = delete_message_reply(mid)
    /\ messages' = SelectSeq(messages, LAMBDA m : m.id # mid)
    /\ UNCHANGED <<sessions, req, h_created, h_deleted, h_fresh, api_request, client>>

\* A delete that marks the rows the id search walked past before it raises 404.
delete_message_upto(mid) ==
    /\ LoopFree
    /\ reply' = delete_message_reply(mid)
    /\ messages' = [i \in 1..Len(messages) |->
                      IF messages[i].id = mid \/ (MessageById(mid) = <<>> /\ messages[i].id < mid)
                      THEN MarkDeleted(messages[i])
                      ELSE messages[i]]
    /\ UNCHANGED <<sessions, req, h_created, h_deleted, h_fresh, api_request, client>>

delete_message(mid) ==
    /\ LoopFree
    /\ reply' = delete_message_reply(mid)
    /\ messages' = [i \in 1..Len(messages) |->
                      IF messages[i].id = mid THEN MarkDeleted(messages[i])
                      ELSE messages[i]]
    /\ UNCHANGED <<sessions, req, h_created, h_deleted, h_fresh, api_request, client>>

\* ------------------------------------------------------------ use_api.py
\* What the completion API may do with one request.
WellFormed(a) == [choices |-> <<[message |-> [content |-> a]]>>]
NoChoicesKey == [error |-> "bad request"]
EmptyChoices == [choices |-> <<>>]
Outcomes ==
    {[kind |-> "json", status |-> 200, body |-> WellFormed(a)] : a \in Replies}
    \cup {[kind |-> "json", status |-> 200, body |-> b] : b \in {NoChoicesKey, EmptyChoices}}
    \cup {[kind |-> "status", status |-> s, body |-> <<>>] : s \in UpstreamStatuses}
    \cup {[kind |-> k, status |-> 0, body |-> <<>>] :
            k \in {"client_error", "timeout", "undecodable"}}

\* The call's result: the decoded body, or the HTTPException it raises
\* (ClientResponseError, ClientError, any other exception).
async_call_openai_chat_api(o) ==
    CASE o.kind = "json" ->
            [raised |-> FALSE, status_code |-> 0, detail |-> "none", json |-> o.body]
      [] o.kind = "status" ->
            [raised |-> TRUE, status_code |-> o.status, detail |-> "api status",
             json |-> <<>>]
      [] o.kind = "client_error" ->
            [raised |-> TRUE, status_code |-> 400, detail |-> "api request error",
             json |-> <<>>]
      [] OTHER ->
            [raised |-> TRUE, status_code |-> 500, detail |-> "api unexpected error",
             json |-> <<>>]

\* The request body: model, messages and the five optional parameters.
OptionalKeys ==
    {"temperature", "max_tokens", "top_p", "frequency_penalty", "presence_penalty"}

ModelNames == {"gpt-3.5-turbo"}
ParamValues == {None, "0", "1"}            \* unset, a zero, a non-zero number
Histories ==
    {<<[role |-> "user", content |-> "hello"]>>,
     <<[role |-> "system", content |-> "world"], [role |-> "user", content |-> "hello"]>>}

CallArgs ==
    [model : ModelNames, messages : Histories, temperature : ParamValues,
     max_tokens : ParamValues, top_p : ParamValues, frequency_penalty : ParamValues,
     presence_penalty : ParamValues]

\* A filter on truthiness: it drops a zero as well as None.
PayloadTruthy(args) ==
    [k \in {"model", "messages"} \cup
            {o \in OptionalKeys : args[o] \notin {None, "0"}} |-> args[k]]

\* payload = {k: v for k, v in payload.items() if v is not None}; model is a
\* str and messages a list, so the filter can only drop optional parameters.
Payload(args) ==
    [k \in {"model", "messages"} \cup
            {o \in OptionalKeys : args[o] # None} |-> args[k]]

\* The client called on its own (as test_call_openai_api does): the body it posts.
client_call(args) ==
    /\ api_request' = [sent |-> TRUE, args |-> args, payload |-> Payload(args)]
    /\ UNCHANGED <<sessions, messages, req, reply, h_created, h_deleted, h_fresh, client>>

\* ---------------------------------------- chat_with_openai, step by step
\* Turns that hold or may still take a pair of rows.
InFlight == Cardinality({r \in Reqs : req[r].pc \in {"api", "commit"}})

\* The history sent to the completion API: the session's rows, then the new text.
WasInactive(sid) ==
    SessionById(sid) # <<>> /\ ~SessionById(sid)[1].active

\* A history that hands the assistant's rows over under the role "assistant".
ChatHistoryAssistantRole(sid, text) ==
    LET rows == SelectSeq(messages, LAMBDA m : m.session_id = sid /\ ~m.is_deleted) IN
    [i \in 1..Len(rows) |->
        [role |-> IF rows[i].character_name = "assistant" THEN "assistant" ELSE "user",
         content |-> rows[i].message]]
    \o <<[role |-> "user", content |-> text]>>

ChatHistory(sid, text) ==
    LET rows == SelectSeq(messages, LAMBDA m : m.session_id = sid /\ ~m.is_deleted) IN
    [i \in 1..Len(rows) |->
        [role |-> IF rows[i].character_name = "assistant" THEN "system" ELSE "user",
         content |-> rows[i].message]]
    \o <<[role |-> "user", content |-> text]>>

\* A chat_read that stores the user's message before the completion call.
chat_read_persist_first(r, sid, text) ==
    /\ LoopFreeFor(r)
    /\ req[r].pc = "idle"
    /\ \A q \in Reqs : q < r => req[q].pc # "idle"
    /\ Len(messages) + 2 * InFlight < 2 * MaxTurns
    /\ req' = [req EXCEPT ![r] = [Idle EXCEPT !.pc = "api", !.session_id = sid,
                                              !.user_message = text,
                                              !.chat_history = ChatHistory(sid, text),
                                              !.h_first = sid \in h_fresh,
                                              !.h_calls = 1,
                                              !.h_inactive = WasInactive(sid)]]
    /\ messages' = Append(messages, MessageRow(NextRowid(messages),
                      [session_id |-> sid, character_name |-> "user", message |-> text]))
    /\ reply' = NoReply
    /\ UNCHANGED <<sessions, h_created, h_deleted, h_fresh, api_request, client>>

\* The request arrives, the history is read and the completion call is issued.
\* A chat_read that turns a request on an inactive session away with 404.
chat_read_active_only(r, sid, text) ==
    /\ LoopFreeFor(r)
    /\ req[r].pc = "idle"
    /\ \A q \in Reqs : q < r => req[q].pc # "idle"
    /\ Len(messages) + 2 * InFlight < 2 * MaxTurns
    /\ IF WasInactive(sid)
       THEN /\ reply' = Reply("chat", sid, 404, "not found", <<>>)
            /\ UNCHANGED req
       ELSE /\ req' = [req EXCEPT ![r] = [Idle EXCEPT !.pc = "api", !.session_id = sid,
                                                      !.user_message = text,
                                                      !.chat_history = ChatHistory(sid, text),
                                                      !.h_first = sid \in h_fresh,
                                                      !.h_calls = 1]]
            /\ reply' = NoReply
    /\ UNCHANGED <<sessions, messages, h_created, h_deleted, h_fresh, api_request, client>>

\* A chat_read that waits while another turn on the same session is under way.
chat_read_serialized(r, sid, text) ==
    /\ LoopFreeFor(r)
    /\ req[r].pc = "idle"
    /\ \A q \in Reqs : q < r => req[q].pc # "idle"
    /\ \A q \in Reqs : req[q].pc # "idle" => req[q].session_id # sid
    /\ Len(messages) + 2 * InFlight < 2 * MaxTurns
    /\ req' = [req EXCEPT ![r] = [Idle EXCEPT !.pc = "api", !.session_id = sid,
                                              !.user_message = text,
                                              !.chat_history = ChatHistory(sid, text),
                                              !.h_first = sid \in h_fresh,
                                              !.h_calls = 1,
                                              !.h_inactive = WasInactive(sid)]]
    /\ reply' = NoReply
    /\ UNCHANGED <<sessions, messages, h_created, h_deleted, h_fresh, api_request, client>>

chat_read(r, sid, text) ==
    /\ LoopFreeFor(r)
    /\ req[r].pc = "idle"
    /\ \A q \in Reqs : q < r => req[q].pc # "idle"    \* handlers are interchangeable
    /\ Len(messages) + 2 * InFlight < 2 * MaxTurns
    /\ req' = [req EXCEPT ![r] = [Idle EXCEPT !.pc = "api", !.session_id = sid,
                                              !.user_message = text,
                                              !.chat_history = ChatHistory(sid, text),
                                              !.h_first = sid \in h_fresh,
                                              !.h_calls = 1,
                                              !.h_inactive = WasInactive(sid)]]
    /\ reply' = NoReply
    /\ UNCHANGED <<sessions, messages, h_created, h_deleted, h_fresh, api_request, client>>

\* The two objects added in the other order.
PendingReplyFirst(sid, text, ai_message) ==
    <<[session_id |-> sid, character_name |-> "assistant", message |-> ai_message],
      [session_id |-> sid, character_name |-> "user", message |-> text]>>

\* The objects db.add() has queued when db.commit() is awaited.
Pending(sid, text, ai_message) ==
    <<[session_id |-> sid, character_name |-> "user", message |-> text],
      [session_id |-> sid, character_name |-> "assistant", message |-> ai_message]>>

\* The handler ends with an HTTPException: http_exception_handler's response.
ChatError(r, code, detail) ==
    Reply("chat", req[r].session_id, code, detail, <<>>)

\* A chat_response that issues the call a second time after a failure.
chat_response_retry(r, o) ==
    /\ LoopFreeFor(r)
    /\ req[r].pc = "api"
    /\ LET res == async_call_openai_chat_api(o) IN
       IF res.raised /\ req[r].h_calls < 2
       THEN /\ req' = [req EXCEPT ![r] = [@ EXCEPT !.h_calls = @ + 1]]
            /\ reply' = NoReply
       ELSE IF res.raised
       THEN /\ req' = [req EXCEPT ![r] = Idle]
            /\ reply' = ChatError(r, res.status_code, res.detail)
       ELSE IF "choices" \notin DOMAIN res.json
       THEN /\ req' = [req EXCEPT ![r] = Idle]
            /\ reply' = ChatError(r, 500, "database or api parse error")
       ELSE IF res.json.choices = <<>>
       THEN /\ req' = [req EXCEPT ![r] = Idle]
            /\ reply' = ChatError(r, 500, "unknown error talking to api")
       ELSE /\ req' = [req EXCEPT ![r] =
                  [@ EXCEPT !.pc = "commit",
                     !.ai_message = res.json.choices[1].message.content,
                     !.pending = Pending(req[r].session_id, req[r].user_message,
                                         res.json.choices[1].message.content)]]
            /\ reply' = NoReply
    /\ UNCHANGED <<sessions, messages, h_created, h_deleted, h_fresh, api_request, client>>

\* The completion call returns or raises; the reply is parsed and both rows queued.
chat_response(r, o) ==
    /\ LoopFreeFor(r)
    /\ req[r].pc = "api"
    /\ LET res == async_call_openai_chat_api(o) IN
       IF res.raised
       THEN /\ req' = [req EXCEPT ![r] = Idle]
            /\ reply' = ChatError(r, res.status_code, res.detail)
       ELSE IF "choices" \notin DOMAIN res.json
       THEN /\ req' = [req EXCEPT ![r] = Idle]
            /\ reply' = ChatError(r, 500, "database or api parse error")
       ELSE IF res.json.choices = <<>>
       THEN /\ req' = [req EXCEPT ![r] = Idle]
            /\ reply' = ChatError(r, 500, "unknown error talking to api")
       ELSE /\ req' = [req EXCEPT ![r] =
                  [@ EXCEPT !.pc = "commit",
                     !.ai_message = res.json.choices[1].message.content,
                     !.pending = Pending(req[r].session_id, req[r].user_message,
                                         res.json.choices[1].message.content)]]
            /\ reply' = NoReply
    /\ UNCHANGED <<sessions, messages, h_created, h_deleted, h_fresh, api_request, client>>

\* db.commit(): both rows are inserted in one transaction, or the store fails.
chat_commit(r, fault) ==
    /\ LoopFreeFor(r)
    /\ req[r].pc = "commit"
    /\ IF fault
       THEN /\ req' = [req EXCEPT ![r] = Idle]
            /\ reply' = ChatError(r, 500, "database or api parse error")
            /\ UNCHANGED <<messages, h_fresh>>
       ELSE /\ messages' = Flush(messages, req[r].pending)
            /\ req' = [req EXCEPT ![r] =
                  [@ EXCEPT !.pc = "refresh", !.pending = <<>>,
                     !.user_id = FlushedId(messages, req[r].pending, "user"),
                     !.ai_id = FlushedId(messages, req[r].pending, "assistant")]]
            /\ h_fresh' = h_fresh \ {req[r].session_id}
            /\ reply' = NoReply
    /\ UNCHANGED <<sessions, h_created, h_deleted, api_request, client>>

\* db.refresh() of both rows, then the 200 response with their ids.
chat_refresh(r, fault) ==
    /\ LoopFreeFor(r)
    /\ req[r].pc = "refresh"
    /\ req' = [req EXCEPT ![r] = Idle]
    /\ reply' = IF fault THEN ChatError(r, 500, "database or api parse error")
                ELSE Reply("chat", req[r].session_id, 200, "ok",
                           <<[ai_message_id |-> req[r].ai_id,
                              user_message_id |-> req[r].user_id,
                              response |-> req[r].ai_message,
                              character_name |-> "assistant"]>>)
    /\ UNCHANGED <<sessions, messages, h_created, h_deleted, h_fresh, api_request, client>>

Next ==
    \/ \E name \in Names : create_session(name)
    \/ list_sessions
    \/ \E sid \in SessionIds : delete_session(sid)
    \/ \E sid \in SessionIds : get_messages(sid)
    \/ \E mid \in MessageIds : delete_message(mid)
    \/ \E r \in Reqs, sid \in SessionIds, text \in Texts : chat_read(r, sid, text)
    \/ \E r \in Reqs, o \in Outcomes : chat_response(r, o)
    \/ \E r \in Reqs, fault \in BOOLEAN : chat_commit(r, fault)
    \/ \E r \in Reqs, fault \in BOOLEAN : chat_refresh(r, fault)

Spec == Init /\ [][Next]_vars

\* The completion client on its own, over every combination of its arguments.
NextPayload ==
    \E args \in CallArgs : client_call(args)

SpecPayload == Init /\ [][NextPayload]_vars

\* ---------------------------------------------------------- chat_app.py
\* What requests.post does in Worker.run: a 200, another status, a Timeout, or
\* another RequestException such as a ConnectionError.
HttpOutcomes == {"200", "other_status", "timeout", "connection_error"}

\* The server's 200 body for the n-th send, with the ids of the pair it stored.
ChatResponseText(n) ==
    [ai_message_id |-> 2 * n, user_message_id |-> 2 * n - 1, response |-> "world",
     character_name |-> "assistant"]

\* ChatWindow.send_message with a session selected: the text is echoed without
\* an id, remembered as the last user item, and a new Worker replaces self.worker.
send_message(text) ==
    /\ ~client.crashed
    /\ client.h_sent < MaxSends
    /\ client' = [client EXCEPT
                     !.items = Append(@, [kind |-> "user", text |-> text, data |-> 0,
                                          h_send |-> client.h_sent + 1]),
                     !.last = Len(client.items) + 1,
                     !.worker = client.h_sent + 1,
                     !.running = @ \cup {client.h_sent + 1},
                     !.h_sent = @ + 1,
                     !.h_emitted = Append(@, 0)]
    /\ UNCHANGED <<sessions, messages, req, reply, h_created, h_deleted, h_fresh,
                   api_request>>

\* The signals Worker.run emits for an outcome; an exception that is not a
\* Timeout leaves run() uncaught and emits nothing.
Emitted(n, outcome) ==
    CASE outcome = "200" ->
            <<[sig |-> "finished", text |-> ChatResponseText(n), h_send |-> n]>>
      [] outcome = "other_status" ->
            <<[sig |-> "error", text |-> "Failed to send message", h_send |-> n]>>
      [] outcome = "timeout" ->
            <<[sig |-> "error", text |-> "Request timed out", h_send |-> n]>>
      [] OTHER -> <<>>

\* Worker.run to its end. A Worker that self.worker no longer refers to is
\* released when run() returns, while its thread may still be finishing:
\* Qt then aborts the process, or the thread is already done.
Worker_run(n, outcome, abort) ==
    /\ ~client.crashed
    /\ n \in client.running
    /\ abort => client.worker # n
    /\ client' = [client EXCEPT
                     !.running = @ \ {n},
                     !.queue = @ \o Emitted(n, outcome),
                     !.h_emitted[n] = Len(Emitted(n, outcome)),
                     !.crashed = abort]
    /\ UNCHANGED <<sessions, messages, req, reply, h_created, h_deleted, h_fresh,
                   api_request>>

\* ChatWindow.handle_response, the slot of finished: the remembered user item
\* gets user_message_id and is forgotten, and the assistant item is added with
\* ai_message_id. With nothing remembered, None.setData raises.
handle_response ==
    /\ ~client.crashed
    /\ client.queue # <<>>
    /\ Head(client.queue).sig = "finished"
    /\ LET response == Head(client.queue).text
           n == Head(client.queue).h_send
       IN  IF client.last = 0
           THEN client' = [client EXCEPT !.queue = Tail(@),
                                         !.h_handled = @ \cup {n},
                                         !.h_failed = TRUE]
           ELSE client' = [client EXCEPT
                             !.queue = Tail(@),
                             !.items = Append([@ EXCEPT ![client.last].data =
                                                   response.user_message_id],
                                              [kind |-> "assistant",
                                               text |-> response.response,
                                               data |-> response.ai_message_id,
                                               h_send |-> n]),
                             !.last = 0,
                             !.h_handled = @ \cup {n}]
    /\ UNCHANGED <<sessions, messages, req, reply, h_created, h_deleted, h_fresh,
                   api_request>>

\* ChatWindow.handle_error, the slot of error: a message box.
handle_error ==
    /\ ~client.crashed
    /\ client.queue # <<>>
    /\ Head(client.queue).sig = "error"
    /\ client' = [client EXCEPT !.queue = Tail(@)]
    /\ UNCHANGED <<sessions, messages, req, reply, h_created, h_deleted, h_fresh,
                   api_request>>

NextClient ==
    \/ \E text \in Texts : send_message(text)
    \/ \E n \in 1..MaxSends, outcome \in HttpOutcomes, abort \in BOOLEAN :
          Worker_run(n, outcome, abort)
    \/ handle_response
    \/ handle_error

SpecClient == Init /\ [][NextClient]_vars

\* ================================================================ claims

\* C1: a chat turn whose completion call fails (upstream status, transport
\* failure, timeout, undecodable or malformed body) ends with an error
\* response and none of its steps, from its arrival to its failure, changes
\* the messages table.
C1_AtomicTurn ==
    [][\A r \in Reqs :
          /\ (req[r].pc \in {"idle", "api"} /\ req'[r] # req[r]) => messages' = messages
          /\ (req[r].pc = "api" /\ req'[r].pc = "idle") =>
                /\ reply'.op = "chat" /\ reply'.arg = req[r].session_id
                /\ reply'.detail # "ok" /\ reply'.body = <<>>]_vars

\* A turn on a session with stored messages has just failed on a timeout.
C1_Witness ==
    /\ reply.op = "chat" /\ reply.detail = "api unexpected error"
    /\ SessionById(reply.arg) # <<>>
    /\ ScanMessages(reply.arg) # <<>>

\* C2: a chat turn on a session id that is not stored never reaches the
\* completion call and persists no message.
C2_ChatNotFound ==
    /\ \A r \in Reqs : req[r].pc # "idle" => SessionById(req[r].session_id) # <<>>
    /\ \A i \in 1..Len(messages) : SessionById(messages[i].session_id) # <<>>

\* C3: in every state the messages table holds a turn's user message exactly
\* when it holds the turn's assistant reply: the rows come in adjacent pairs
\* of one session, user then assistant, and a committed turn's two ids are
\* both stored.
C3_TurnPairing ==
    /\ \A i \in 1..Len(messages) :
          /\ messages[i].character_name = "user" =>
                /\ i + 1 <= Len(messages)
                /\ messages[i + 1].character_name = "assistant"
                /\ messages[i + 1].session_id = messages[i].session_id
          /\ messages[i].character_name = "assistant" =>
                /\ i > 1
                /\ messages[i - 1].character_name = "user"
                /\ messages[i - 1].session_id = messages[i].session_id
    /\ \A r \in Reqs : req[r].pc = "refresh" =>
          /\ MessageById(req[r].user_id) # <<>>
          /\ MessageById(req[r].ai_id) # <<>>

\* One turn has committed its pair while another is about to commit.
C3_Witness ==
    /\ \E r \in Reqs : req[r].pc = "refresh"
    /\ \E r \in Reqs : req[r].pc = "commit"

\* The ids of a response body's entries, in order.
Ids(body) == [i \in 1..Len(body) |-> body[i].id]

\* C4: delete_message on a stored message succeeds on every call, the message
\* is absent from list_messages from the first call on, and a call on a
\* message that is already deleted leaves both tables as they were.
C4_DeleteIdempotent ==
    /\ [](reply.op = "delete_message" /\ MessageById(reply.arg) # <<>> =>
            /\ reply.status = 200
            /\ MessageById(reply.arg)[1].is_deleted
            /\ \A sid \in SessionIds : \A i \in 1..Len(get_messages_reply(sid).body) :
                  get_messages_reply(sid).body[i].id # reply.arg)
    /\ [][(reply'.op = "delete_message" /\ MessageById(reply'.arg) # <<>>
              /\ MessageById(reply'.arg)[1].is_deleted) =>
            (reply'.status = 200 /\ messages' = messages /\ sessions' = sessions)]_vars

\* delete_message has just succeeded on a message that was deleted before.
C4_Witness ==
    /\ reply.op = "delete_message" /\ reply.status = 200
    /\ reply.log = "repeated delete"
    /\ SessionById(MessageById(reply.arg)[1].session_id) # <<>>

\* C5: every list_messages response lists its messages in ascending id order.
C5_ListOrdered ==
    (reply.op = "get_messages" /\ reply.status = 200) =>
        \A i, j \in 1..Len(reply.body) : i < j => reply.body[i].id < reply.body[j].id

\* list_messages has returned the rows of two turns, one of them deleted in between.
C5_Witness ==
    /\ reply.op = "get_messages" /\ reply.status = 200
    /\ Ids(reply.body) = <<1, 3, 4>>

\* C6: a successful chat turn reports a user message id strictly below its
\* assistant message id, and the rows of those ids are the turn's user row and
\* its assistant row.
C6_UserBeforeAssistant ==
    (reply.op = "chat" /\ reply.status = 200) =>
        LET b == reply.body[1] IN
        /\ b.user_message_id < b.ai_message_id
        /\ MessageById(b.user_message_id) # <<>> /\ MessageById(b.ai_message_id) # <<>>
        /\ MessageById(b.user_message_id)[1].character_name = "user"
        /\ MessageById(b.ai_message_id)[1].character_name = "assistant"
        /\ MessageById(b.user_message_id)[1].session_id = reply.arg
        /\ MessageById(b.ai_message_id)[1].session_id = reply.arg
        /\ MessageById(b.ai_message_id)[1].message = b.response

\* A turn has returned its ids while a concurrent turn on the same session,
\* which read its history before the first committed, has committed too.
C6_Witness ==
    /\ reply.op = "chat" /\ reply.status = 200 /\ SessionById(reply.arg) # <<>>
    /\ \E r \in Reqs : req[r].pc = "refresh" /\ req[r].session_id = reply.arg
                       /\ req[r].user_id > reply.body[1].ai_message_id

\* C7: list_messages answers 404 when the session is not stored; otherwise it
\* returns, once each, exactly the stored messages of that session whose
\* is_deleted is false.
C7_ListExact ==
    reply.op = "get_messages" =>
        IF \A i \in 1..Len(sessions) : sessions[i].id # reply.arg
        THEN reply.status = 404 /\ reply.body = <<>>
        ELSE /\ reply.status = 200
             /\ {reply.body[i] : i \in 1..Len(reply.body)} =
                   {[id |-> messages[i].id, character_name |-> messages[i].character_name,
                     message |-> messages[i].message] :
                      i \in {k \in 1..Len(messages) :
                               messages[k].session_id = reply.arg /\ ~messages[k].is_deleted}}
             /\ \A i, j \in 1..Len(reply.body) :
                   reply.body[i].id = reply.body[j].id => i = j

\* list_messages has answered for a session that has a listed message and a
\* deleted one, while another session has messages too.
C7_Witness ==
    /\ reply.op = "get_messages" /\ reply.status = 200 /\ reply.body # <<>>
    /\ \E i \in 1..Len(messages) : messages[i].session_id = reply.arg /\ messages[i].is_deleted
    /\ \E i \in 1..Len(messages) : messages[i].session_id # reply.arg /\ ~messages[i].is_deleted

\* A 404 from list_messages for an id that names no session although messages carry it.
C7_WitnessNotFound ==
    /\ reply.op = "get_messages" /\ reply.status = 404
    /\ \E i \in 1..Len(messages) : messages[i].session_id = reply.arg

\* C8: the stored sessions are the created ones, a session is active exactly
\* when delete_session has never succeeded on it, and every list_sessions
\* response lists, once each, exactly the active sessions.
C8_ActiveFilter ==
    /\ {sessions[i].id : i \in 1..Len(sessions)} = h_created
    /\ \A i \in 1..Len(sessions) : sessions[i].active <=> sessions[i].id \notin h_deleted
    /\ reply.op = "list_sessions" =>
          /\ {reply.body[i].session_id : i \in 1..Len(reply.body)} = h_created \ h_deleted
          /\ \A i, j \in 1..Len(reply.body) :
                reply.body[i].session_id = reply.body[j].session_id => i = j

\* list_sessions has answered with one of two sessions, the other deleted,
\* after chat turns and a message deletion.
C8_Witness ==
    /\ reply.op = "list_sessions" /\ Len(reply.body) = 1
    /\ h_deleted # {} /\ Len(sessions) = 2
    /\ \E i \in 1..Len(messages) : messages[i].is_deleted

\* C9: a successful delete_session changes no message row, takes the session
\* out of list_sessions and leaves the list_messages response for it, and the
\* delete_message response for each of its messages, as they were.
C9_NoCascade ==
    [][(reply'.op = "delete_session" /\ reply'.status = 200) =>
          /\ messages' = messages
          /\ \A i \in 1..Len(list_sessions_reply'.body) :
                list_sessions_reply'.body[i].session_id # reply'.arg
          /\ \A sid \in SessionIds : sid = reply'.arg =>
                /\ get_messages_reply(sid)' = get_messages_reply(sid)
                /\ get_messages_reply(sid)'.status = 200
          /\ \A mid \in MessageIds :
                /\ delete_message_reply(mid)' = delete_message_reply(mid)
                /\ (\E i \in 1..Len(messages) :
                       messages[i].id = mid /\ messages[i].session_id = reply'.arg)
                      => delete_message_reply(mid)'.status = 200]_vars

\* delete_session has just succeeded on a session that has a listed message.
C9_Witness ==
    /\ reply.op = "delete_session" /\ reply.status = 200
    /\ ScanMessages(reply.arg) # <<>>

\* C10: when a turn that began on a freshly created session (created, and no
\* turn committed on it since) commits, list_messages for it returns exactly two
\* entries, the turn's user text and then the assistant's reply, ids ascending.
C10_RoundTrip ==
    [][\A r \in Reqs :
          (req[r].pc = "commit" /\ req'[r].pc = "refresh"
              /\ req[r].h_first /\ req[r].session_id \in h_fresh) =>
             LET b == get_messages_reply(req[r].session_id)'.body IN
             /\ Len(b) = 2
             /\ b[1].character_name = "user" /\ b[1].message = req[r].user_message
             /\ b[2].character_name = "assistant" /\ b[2].message = req[r].ai_message
             /\ b[2].id > b[1].id]_vars

\* C11: delete_message on an id with no stored message and delete_session on
\* an id with no stored session answer 404, and a step that answers 404
\* modifies no session and no message.
C11_NotFoundNoChange ==
    /\ [](/\ ((reply.op = "delete_message" /\ MessageById(reply.arg) = <<>>)
                => reply.status = 404)
           /\ ((reply.op = "delete_session" /\ SessionById(reply.arg) = <<>>)
                => reply.status = 404))
    /\ [][reply'.status = 404 => sessions' = sessions /\ messages' = messages]_vars

C11_Witness ==
    /\ reply.op \in {"delete_message", "delete_session"}
    /\ reply.status = 404
    /\ \E i \in 1..Len(sessions) : sessions[i].active
    /\ \E i \in 1..Len(messages) : ~messages[i].is_deleted

\* C12: the history a chat turn passes to the completion client is the
\* non-deleted messages of its session and no others, in ascending id order,
\* each with role "system" when its character_name is "assistant" and "user"
\* otherwise, followed by one final "user" entry with the new text; the new
\* text is not in the store when the call is made.
C12_HistoryPassed ==
    [][\A r \in Reqs :
          (req[r].pc = "idle" /\ req'[r].pc = "api") =>
              LET h == req'[r].chat_history
                  own == {i \in 1..Len(messages) :
                             /\ messages[i].session_id = req'[r].session_id
                             /\ ~messages[i].is_deleted}
              IN  /\ Len(h) = Cardinality(own) + 1
                  /\ \A i \in own :
                        h[Cardinality({j \in own : messages[j].id < messages[i].id}) + 1]
                          = [role |-> IF messages[i].character_name = "assistant"
                                      THEN "system" ELSE "user",
                             content |-> messages[i].message]
                  /\ h[Len(h)] = [role |-> "user", content |-> req'[r].user_message]
                  /\ messages' = messages]_vars

C12_Witness ==
    \E r \in Reqs :
        /\ req[r].pc = "api"
        /\ req[r].chat_history = <<[role |-> "system", content |-> "world"],
                                   [role |-> "user", content |-> "hello"]>>
        /\ \E i \in 1..Len(messages) :
              /\ messages[i].session_id = req[r].session_id
              /\ messages[i].character_name = "user"
              /\ messages[i].is_deleted

\* C13: a chat turn issues the completion call at most once; when the call
\* fails the turn ends in that step with a failure response and an idle
\* handler, and a handler only ever reaches the call from idle (a new request).
C13_NoRetry ==
    /\ [](\A r \in Reqs :
             /\ req[r].h_calls <= 1
             /\ req[r].pc \in {"api", "commit", "refresh"} => req[r].h_calls = 1)
    /\ [][\A r \in Reqs :
             /\ (req[r].pc = "api" /\ req'[r] # req[r]) =>
                    \/ req'[r].pc = "commit" /\ req'[r].h_calls = 1
                    \/ /\ req'[r] = Idle
                       /\ reply'.op = "chat"
                       /\ reply'.arg = req[r].session_id
                       /\ reply'.status \in {400, 500} \cup UpstreamStatuses
             /\ (req'[r].pc = "api" /\ req'[r] # req[r]) => req[r] = Idle]_vars

C13_Witness ==
    /\ reply.op = "chat"
    /\ reply.detail \in {"api status", "api request error", "api unexpected error"}
    /\ \A r \in Reqs : req[r] = Idle
    /\ messages = <<>>
    /\ SessionById(reply.arg) # <<>>

\* A handler free to take the next chat request while rows may still be added.
CanAccept(r) ==
    /\ req[r].pc = "idle"
    /\ \A q \in Reqs : q < r => req[q].pc # "idle"
    /\ Len(messages) + 2 * InFlight < 2 * MaxTurns

\* C14: chat turns on one session are not serialized: while a turn on a
\* session has read its history and not yet persisted, a second turn on the
\* same session can read its history, and when both hold their pair unpersisted
\* each of them can persist it.
C14_NoSerialization ==
    /\ \A r \in Reqs, q \in Reqs, text \in Texts :
          (CanAccept(r) /\ req[q].pc \in {"api", "commit"}) =>
              ENABLED chat_read(r, req[q].session_id, text)
    /\ \A r \in Reqs, q \in Reqs :
          (r # q /\ req[r].pc = "commit" /\ req[q].pc = "commit"
                 /\ req[r].session_id = req[q].session_id) =>
              ENABLED chat_commit(r, FALSE)

\* Both turns read an empty session, and both pairs are now stored.
C14_Witness ==
    \E r \in Reqs, q \in Reqs :
        /\ r # q
        /\ req[r].pc = "refresh" /\ req[q].pc = "refresh"
        /\ req[r].session_id = req[q].session_id
        /\ SessionById(req[r].session_id) # <<>>
        /\ Len(req[r].chat_history) = 1 /\ Len(req[q].chat_history) = 1
        /\ Len(ScanMessages(req[r].session_id)) = 4

C16_DeleteSessionAgain ==
    /\ []((reply.op = "delete_session" /\ SessionById(reply.arg) # <<>>) =>
             /\ reply.status = 200
             /\ ~SessionById(reply.arg)[1].active)
    /\ [][(/\ reply'.op = "delete_session"
            /\ reply' # reply
            /\ SessionById(reply'.arg) # <<>>
            /\ ~SessionById(reply'.arg)[1].active) =>
                /\ reply'.status = 200
                /\ reply'.h_prior = "inactive"
                /\ sessions' = sessions
                /\ messages' = messages]_vars

C16_Witness ==
    /\ reply.op = "delete_session"
    /\ reply.status = 200
    /\ reply.h_prior = "inactive"
    /\ reply.arg \in h_deleted
    /\ ~SessionById(reply.arg)[1].active
    /\ ScanMessages(reply.arg) # <<>>

\* C17: the request body holds the model identifier, the messages as given,
\* and exactly those of temperature, max_tokens, top_p, frequency_penalty and
\* presence_penalty that were set, each with its value; an unset parameter
\* has no key, so no key is ever sent with a null value.
C17_PayloadExact ==
    api_request.sent =>
        LET a == api_request.args
            p == api_request.payload
        IN  /\ DOMAIN p \subseteq {"model", "messages"} \cup OptionalKeys
            /\ "model" \in DOMAIN p /\ p["model"] = a.model
            /\ "messages" \in DOMAIN p /\ p["messages"] = a.messages
            /\ \A k \in OptionalKeys :
                  /\ k \in DOMAIN p <=> a[k] # None
                  /\ k \in DOMAIN p => p[k] = a[k] /\ p[k] # None

\* A zero temperature is sent, the unset parameters are not.
C17_Witness ==
    /\ api_request.sent
    /\ api_request.args.temperature = "0"
    /\ api_request.args.presence_penalty = "1"
    /\ api_request.args.max_tokens = None
    /\ DOMAIN api_request.payload = {"model", "messages", "temperature", "presence_penalty"}

ChatFailures ==
    {"api status", "api request error", "api unexpected error",
     "database or api parse error", "unknown error talking to api"}

\* C18: a chat turn does not look at the session's active flag: a turn never
\* fails for any reason but the completion call or the store, and when a turn
\* on a stored inactive session commits, its user and assistant messages are
\* the last two that list_messages returns for that session.
C18_ChatOnInactive ==
    /\ [][(reply'.op = "chat" /\ reply'.status # 200) => reply'.detail \in ChatFailures]_vars
    /\ [][\A r \in Reqs, sid \in SessionIds :
             (/\ req[r].pc = "commit" /\ req'[r].pc = "refresh"
              /\ req[r].session_id = sid
              /\ WasInactive(sid)) =>
                 LET listed == get_messages_reply(sid)'
                     n == Len(listed.body)
                 IN  /\ listed.status = 200
                     /\ n >= 2
                     /\ listed.body[n - 1] = [id |-> req'[r].user_id,
                                              character_name |-> "user",
                                              message |-> req[r].user_message]
                     /\ listed.body[n] = [id |-> req'[r].ai_id,
                                          character_name |-> "assistant",
                                          message |-> req[r].ai_message]]_vars

\* The session was already inactive when the turn read it; the pair is listed.
C18_Witness ==
    \E r \in Reqs :
        /\ req[r].pc = "refresh"
        /\ req[r].h_inactive
        /\ WasInactive(req[r].session_id)
        /\ get_messages_reply(req[r].session_id).status = 200
        /\ {req[r].user_id, req[r].ai_id} \subseteq
              {get_messages_reply(req[r].session_id).body[i].id :
                 i \in 1..Len(get_messages_reply(req[r].session_id).body)}

StoredSessionIds == {sessions[i].id : i \in 1..Len(sessions)}
StoredMessageIds == {messages[i].id : i \in 1..Len(messages)}

\* C19: no row is ever removed: a session id or message id that is stored
\* stays stored, so the two sets of stored ids only grow.
C19_RowsOnlyGrow ==
    [][/\ StoredSessionIds \subseteq StoredSessionIds'
       /\ StoredMessageIds \subseteq StoredMessageIds']_vars

\* Every row that was ever inserted is there after both kinds of delete.
C19_Witness ==
    /\ reply.op = "delete_message"
    /\ reply.status = 200
    /\ StoredSessionIds = 1..MaxSessions
    /\ StoredMessageIds = 1..(2 * MaxTurns)
    /\ \E i \in 1..Len(sessions) : ~sessions[i].active
    /\ \A i \in 1..Len(messages) : messages[i].is_deleted

\* C20: the soft-delete flags are monotone: a message whose is_deleted is
\* true keeps it true, and a session whose active is false keeps it false.
C20_FlagsMonotone ==
    [][/\ \A mid \in MessageIds :
             (MessageById(mid) # <<>> /\ MessageById(mid)[1].is_deleted) =>
                 (MessageById(mid)' # <<>> /\ MessageById(mid)[1]'.is_deleted)
       /\ \A sid \in SessionIds :
             (SessionById(sid) # <<>> /\ ~SessionById(sid)[1].active) =>
                 (SessionById(sid)' # <<>> /\ ~SessionById(sid)[1]'.active)]_vars

\* Both flags were set before a turn on that session completed, and still are.
C20_Witness ==
    /\ reply.op = "chat"
    /\ reply.status = 200
    /\ WasInactive(reply.arg)
    /\ reply.arg \in h_deleted
    /\ \E i \in 1..Len(messages) :
          messages[i].session_id = reply.arg /\ messages[i].is_deleted

\* C21: delete_message(m) changes nothing but the is_deleted flag of message
\* m, delete_session(s) changes nothing but the active flag of session s, and
\* no step changes the session_id, character_name, message text or timestamp
\* of a stored message or the name of a stored session.
C21_Frame ==
    [][/\ \A mid \in MessageIds :
             MessageById(mid) # <<>> =>
                 /\ MessageById(mid)' # <<>>
                 /\ (MessageById(mid)')[1].session_id = MessageById(mid)[1].session_id
                 /\ (MessageById(mid)')[1].character_name = MessageById(mid)[1].character_name
                 /\ (MessageById(mid)')[1].message = MessageById(mid)[1].message
                 /\ (MessageById(mid)')[1].timestamp = MessageById(mid)[1].timestamp
       /\ \A sid \in SessionIds :
             SessionById(sid) # <<>> =>
                 /\ SessionById(sid)' # <<>>
                 /\ (SessionById(sid)')[1].name = SessionById(sid)[1].name
       /\ reply'.op = "delete_message" =>
             /\ sessions' = sessions
             /\ Len(messages') = Len(messages)
             /\ \A mid \in MessageIds :
                   mid # reply'.arg => MessageById(mid)' = MessageById(mid)
       /\ reply'.op = "delete_session" =>
             /\ messages' = messages
             /\ Len(sessions') = Len(sessions)
             /\ \A sid \in SessionIds :
                   sid # reply'.arg => SessionById(sid)' = SessionById(sid)]_vars

\* Both deletes have acted on a session that holds a whole turn.
C21_Witness ==
    /\ reply.op = "delete_session"
    /\ reply.status = 200
    /\ reply.h_prior = "active"
    /\ Len(sessions) = MaxSessions
    /\ \E i, j \in 1..Len(messages) :
          /\ messages[i].session_id = reply.arg /\ messages[i].is_deleted
          /\ messages[j].session_id = reply.arg /\ ~messages[j].is_deleted

\* C22: once the 200 response of a send has been handled, the user item that
\* send echoed carries that response's user_message_id and an assistant item
\* carries its ai_message_id; no item carries an id from another send's
\* response, and no response handling fails.
C22_Reconciled ==
    /\ ~client.h_failed
    /\ \A n \in client.h_handled :
          /\ \E i \in 1..Len(client.items) :
                /\ client.items[i].kind = "user"
                /\ client.items[i].h_send = n
                /\ client.items[i].data = ChatResponseText(n).user_message_id
          /\ \E i \in 1..Len(client.items) :
                /\ client.items[i].kind = "assistant"
                /\ client.items[i].data = ChatResponseText(n).ai_message_id
    /\ \A i \in 1..Len(client.items) :
          client.items[i].data # 0 =>
              client.items[i].data \in
                  {ChatResponseText(client.items[i].h_send).user_message_id,
                   ChatResponseText(client.items[i].h_send).ai_message_id}

\* C23: every stored message's session_id is the id of a stored session, so
\* list_messages on a session whose id create_session has just returned is empty.
C23_ReferentialIntegrity ==
    /\ \A i \in 1..Len(messages) : SessionById(messages[i].session_id) # <<>>
    /\ reply.op = "create_session" =>
          get_messages_reply(reply.body[1].session_id).body = <<>>

\* C24: a chat turn answers 200 if and only if its pair was committed: a turn
\* that ends with an error has stored nothing, also when the store fails after
\* the commit, and a turn that stored its pair answers 200 with the two new ids.
C24_SuccessIffCommitted ==
    [][\A r \in Reqs :
          (req[r].pc # "idle" /\ req'[r] = Idle) =>
              /\ reply'.op = "chat"
              /\ reply'.status = 200 <=> req[r].pc = "refresh"
              /\ reply'.status = 200 =>
                    /\ reply'.body[1].user_message_id = req[r].user_id
                    /\ reply'.body[1].ai_message_id = req[r].ai_id
                    /\ {req[r].user_id, req[r].ai_id} \subseteq StoredMessageIds']_vars

\* C25: every run of the client's Worker emits exactly one of its two
\* signals before it ends, whatever the HTTP request did: a 200, another
\* status, a timeout, or another request exception.
C25_OneSignal ==
    \A n \in 1..client.h_sent :
        n \notin client.running => client.h_emitted[n] = 1

====
